---- MODULE Spec2Model ----
(***************************************************************************)
(* Rolling feature engine, projection blender and walk-forward backtester  *)
(* of src/src/projections/player_game.py.                                  *)
(*                                                                         *)
(* Python floats are modelled as exact rationals [k, n, d] in lowest terms *)
(* with two further values, the float NaN and Python's None.  The only     *)
(* irrational operation, the square root inside statistics.pstdev, is      *)
(* exact on perfect squares and rounded down to 1/SqrtScale otherwise.     *)
(***************************************************************************)
EXTENDS Integers, Sequences, FiniteSets, TLC

VARIABLES rows, file, op, arg, ret

vars == <<rows, file, op, arg, ret>>

(***************************************************************************)
(* Bounds of the model.                                                    *)
(***************************************************************************)
MaxGames == 11
MaxOdd == 1
MaxLookback == 3
MaxWindow == 5
MaxWords == 3
MaxFile == 3
MaxDay == 2
SqrtScale == 100

(***************************************************************************)
(* Float values.                                                           *)
(***************************************************************************)
Abs(x) == IF x < 0 THEN -x ELSE x

RECURSIVE Gcd(_, _)
Gcd(a, b) == IF b = 0 THEN a ELSE Gcd(b, a % b)

None == [k |-> "none", n |-> 0, d |-> 1]

NaN == [k |-> "nan", n |-> 0, d |-> 1]

Num(n) == [k |-> "num", n |-> n, d |-> 1]

\* the float n / d, in lowest terms with a positive denominator
Rat(n, d) ==
    IF d = 1 THEN Num(n)
    ELSE LET g == Gcd(Abs(n), Abs(d))
             s == IF d < 0 THEN -1 ELSE 1
         IN  [k |-> "num", n |-> s * (n \div g), d |-> s * (d \div g)]

IsNone(x) == x.k = "none"

IsNaN(x) == x.k = "nan"

IsNum(x) == x.k = "num"

\* x + y on floats: NaN is absorbing
Add(x, y) ==
    IF IsNaN(x) \/ IsNaN(y) THEN NaN
    ELSE IF x.d = y.d THEN Rat(x.n + y.n, x.d)
    ELSE LET g == Gcd(x.d, y.d)
         IN  Rat(x.n * (y.d \div g) + y.n * (x.d \div g), (x.d \div g) * y.d)

Neg(x) == IF IsNaN(x) THEN NaN ELSE [k |-> "num", n |-> -x.n, d |-> x.d]

Sub(x, y) == Add(x, Neg(y))

\* x * y on floats, cross-cancelled so that intermediate products stay small
Mul(x, y) ==
    IF IsNaN(x) \/ IsNaN(y) THEN NaN
    ELSE IF x.n = 0 \/ y.n = 0 THEN Num(0)
    ELSE IF x.d = 1 /\ y.d = 1 THEN Num(x.n * y.n)
    ELSE LET g1 == Gcd(Abs(x.n), y.d)
             g2 == Gcd(Abs(y.n), x.d)
         IN  [k |-> "num", n |-> (x.n \div g1) * (y.n \div g2),
              d |-> (x.d \div g2) * (y.d \div g1)]

\* x / y on floats; every division of the source is guarded against y = 0
Div(x, y) ==
    IF IsNaN(x) \/ IsNaN(y) THEN NaN
    ELSE Mul(x, Rat(y.d, y.n))

\* x < y and x > y on floats: every comparison with NaN is false
Lt(x, y) == IsNum(x) /\ IsNum(y) /\ x.n * y.d < y.n * x.d

Gt(x, y) == Lt(y, x)

\* Python truthiness: None and 0.0 are falsy, NaN is truthy
Truthy(x) == IF IsNone(x) THEN FALSE ELSE IF IsNaN(x) THEN TRUE ELSE x.n # 0

\* Python's `x or y`
Or(x, y) == IF Truthy(x) THEN x ELSE y

\* Python's max(x, y): x unless y > x
PyMax(x, y) == IF Gt(y, x) THEN y ELSE x

IsFinite(x) == IsNum(x)

RECURSIVE SumSeq(_)
SumSeq(s) == IF s = <<>> THEN Num(0) ELSE Add(Head(s), SumSeq(Tail(s)))

\* statistics.mean of a non-empty list of floats
Mean(s) == Div(SumSeq(s), Num(Len(s)))

\* largest r with r * r <= n, by bisection on lo..hi
RECURSIVE ISqrtIn(_, _, _)
ISqrtIn(n, lo, hi) ==
    IF lo >= hi THEN lo
    ELSE LET mid == (lo + hi + 1) \div 2
         IN  IF mid * mid <= n THEN ISqrtIn(n, mid, hi) ELSE ISqrtIn(n, lo, mid - 1)

ISqrt(n) == ISqrtIn(n, 0, IF n < 46340 THEN n ELSE 46340)

\* math.sqrt of a non-negative float
Sqrt(x) ==
    IF IsNaN(x) THEN NaN
    ELSE LET rn == ISqrt(x.n)
             rd == ISqrt(x.d)
         IN  IF rn * rn = x.n /\ rd * rd = x.d THEN Rat(rn, rd)
             ELSE Rat(ISqrt((x.n * SqrtScale * SqrtScale) \div x.d), SqrtScale)

HasNaN(s) == \E i \in 1..Len(s) : IsNaN(s[i])

\* len(set(values)) == 1: every float("nan") the loader makes is a distinct
\* object that equals nothing but itself, so each NaN is an element of its own
AllSame(s) ==
    Cardinality({i \in 1..Len(s) : IsNaN(s[i])})
        + Cardinality({s[i] : i \in {j \in 1..Len(s) : ~IsNaN(s[j])}}) = 1

(***************************************************************************)
(* Rolling statistics (lists are 1-based here: index i is idx + 1).        *)
(***************************************************************************)
\* the window slid one observation ahead: values[idx + 2 - window : idx + 2]
WindowValuesAhead(values, i, window) ==
    SubSeq(values, i + 2 - window, IF i < Len(values) THEN i + 1 ELSE i)

\* values[idx + 1 - window : idx + 1]
WindowValues(values, i, window) == SubSeq(values, i + 1 - window, i)

\* _rolling with the slice one element short: values[idx + 2 - window : idx + 1]
_rolling_short(values, window) ==
    [i \in 1..Len(values) |->
        IF i < window THEN None ELSE Mean(SubSeq(values, i + 2 - window, i))]

_rolling(values, window) ==
    [i \in 1..Len(values) |->
        IF i < window THEN None ELSE Mean(WindowValues(values, i, window))]

\* the outcome of a call that raised instead of returning a value
Raised == [k |-> "raised", n |-> 0, d |-> 1]

\* statistics.pstdev on a NaN: CPython up to 3.10 returns NaN, CPython from
\* 3.11 raises AttributeError (float has no numerator)
PstdevOnNaN == {"nan", "raise"}

SqDev(s, mu) == [i \in 1..Len(s) |-> Mul(Sub(s[i], mu), Sub(s[i], mu))]

pstdev(s, rt) ==
    IF HasNaN(s) THEN (IF rt = "raise" THEN Raised ELSE NaN)
    ELSE Sqrt(Mean(SqDev(s, Mean(s))))

\* _rolling_std appending 0.0 where the window is not full
_rolling_std_filled(values, window, rt) ==
    [i \in 1..Len(values) |->
        IF i < window THEN Num(0)
        ELSE IF AllSame(WindowValues(values, i, window)) THEN Num(0)
        ELSE pstdev(WindowValues(values, i, window), rt)]

_rolling_std(values, window, rt) ==
    [i \in 1..Len(values) |->
        IF i < window THEN None
        ELSE IF AllSame(WindowValues(values, i, window)) THEN Num(0)
        ELSE pstdev(WindowValues(values, i, window), rt)]

\* the slope of the line through the first and the last value of the window
_rolling_slope_endpoints(values, window) ==
    [i \in 1..Len(values) |->
        IF i < window THEN None
        ELSE LET window_values == WindowValues(values, i, window)
                 n == Len(window_values)
             IN  Div(Sub(window_values[n], window_values[1]), Or(Num(n - 1), Num(1)))]

_rolling_slope(values, window) ==
    [i \in 1..Len(values) |->
        IF i < window THEN None
        ELSE LET window_values == WindowValues(values, i, window)
                 n == Len(window_values)
                 x_vals == [x \in 1..n |-> Num(x - 1)]
                 x_mean == Mean(x_vals)
                 y_mean == Mean(window_values)
                 numerator == SumSeq([x \in 1..n |->
                     Mul(Sub(x_vals[x], x_mean), Sub(window_values[x], y_mean))])
                 sq == SumSeq([x \in 1..n |->
                     Mul(Sub(x_vals[x], x_mean), Sub(x_vals[x], x_mean))])
                 denominator == Or(sq, Num(1))
             IN  Div(numerator, denominator)]

\* a list comprehension or a slice raises when evaluating an element raised
Raises(list) == \E i \in 1..Len(list) : list[i].k = "raised"

(***************************************************************************)
(* Feature engine.                                                         *)
(***************************************************************************)
Column(rs, key) == [i \in 1..Len(rs) |-> rs[i][key]]

\* the comparison of the flag turned round: value < (avg or value) * factor
FlagAboveInverted(value, avg, factor) ==
    IF Truthy(avg) THEN (IF Lt(value, Mul(Or(avg, value), factor)) THEN 1 ELSE 0) ELSE 0

\* int(value > (avg or value) * factor) if avg else 0
FlagAbove(value, avg, factor) ==
    IF Truthy(avg) THEN (IF Gt(value, Mul(Or(avg, value), factor)) THEN 1 ELSE 0) ELSE 0

\* int(value < (avg or value) * factor) if avg else 0
FlagBelow(value, avg, factor) ==
    IF Truthy(avg) THEN (IF Lt(value, Mul(Or(avg, value), factor)) THEN 1 ELSE 0) ELSE 0

\* whether the call raises: the two pstdev lists are the only statements of
\* engineer_features that can, and only on a runtime whose pstdev raises
engineer_features_raises(rs, rt) ==
    /\ rt = "raise"
    /\ \/ Raises(_rolling_std(Column(rs, "sorare_score"), 10, rt))
       \/ Raises(_rolling_std(Column(rs, "points"), 10, rt))

\* the list of enriched rows the call returns when it does not raise
engineer_features(rs, rt) ==
    LET minutes == Column(rs, "minutes")
        usage == Column(rs, "usage_rate")
        ts == Column(rs, "true_shooting_pct")
        pace == Column(rs, "pace")
        opp_def == Column(rs, "opponent_def_rating")
        sorare == Column(rs, "sorare_score")
        points == Column(rs, "points")
        minutes_avg_5 == _rolling(minutes, 5)
        minutes_avg_10 == _rolling(minutes, 10)
        minutes_trend == _rolling_slope(minutes, 5)
        usage_avg_5 == _rolling(usage, 5)
        usage_avg_10 == _rolling(usage, 10)
        ts_avg_5 == _rolling(ts, 5)
        ts_avg_10 == _rolling(ts, 10)
        pace_avg_5 == _rolling(pace, 5)
        opp_def_avg_5 == _rolling(opp_def, 5)
        sorare_mean_10 == _rolling(sorare, 10)
        sorare_std_10 == _rolling_std(sorare, 10, rt)
        points_avg_5 == _rolling(points, 5)
        points_avg_10 == _rolling(points, 10)
        points_std_10 == _rolling_std(points, 10, rt)
    IN  [idx \in 1..Len(rs) |->
            LET row == rs[idx]
                m5 == minutes_avg_5[idx]
                t5 == ts_avg_5[idx]
                p5 == pace_avg_5[idx]
                pt5 == points_avg_5[idx]
                trend == minutes_trend[idx]
            IN  [game_date |-> row.game_date,
                 opponent |-> row.opponent,
                 minutes |-> row.minutes,
                 usage_rate |-> row.usage_rate,
                 true_shooting_pct |-> row.true_shooting_pct,
                 sorare_score |-> row.sorare_score,
                 points |-> row.points,
                 pace |-> row.pace,
                 opponent_def_rating |-> row.opponent_def_rating,
                 minutes_avg_5 |-> m5,
                 minutes_avg_10 |-> minutes_avg_10[idx],
                 minutes_trend |-> IF ~IsNone(trend) THEN trend ELSE Num(0),
                 usage_avg_5 |-> usage_avg_5[idx],
                 usage_avg_10 |-> usage_avg_10[idx],
                 ts_avg_5 |-> t5,
                 ts_avg_10 |-> ts_avg_10[idx],
                 pace_avg_5 |-> p5,
                 opp_def_avg_5 |-> opp_def_avg_5[idx],
                 sorare_mean_10 |-> sorare_mean_10[idx],
                 sorare_std_10 |-> sorare_std_10[idx],
                 points_avg_5 |-> pt5,
                 points_avg_10 |-> points_avg_10[idx],
                 points_std_10 |-> points_std_10[idx],
                 flag_high_pace |-> FlagAbove(pace[idx], p5, Rat(51, 50)),
                 flag_low_minutes |-> FlagBelow(minutes[idx], m5, Rat(9, 10)),
                 flag_efficiency_spike |-> FlagAbove(ts[idx], t5, Rat(21, 20)),
                 flag_scoring_run |-> FlagAbove(points[idx], pt5, Rat(21, 20))]]

\* enriched_row = row: one dict under two names, so that the writes of lines
\* 127-145 land in the caller's row
RowAliased(row, enriched_row) == enriched_row

\* line 126: enriched_row = dict(row) is a new dict; the writes of lines
\* 127-145 go to it and the caller's row holds what it held
RowAfter(row, enriched_row) == row

\* the first n rows of the caller's list after the loop of lines 125-146
RECURSIVE RowsAfter(_, _, _)
RowsAfter(rs, enriched, n) ==
    IF n = 0 THEN <<>>
    ELSE Append(RowsAfter(rs, enriched, n - 1), RowAfter(rs[n], enriched[n]))

\* the caller's list after a call that returned: the list itself is only read
rows_after(rs, rt) == RowsAfter(rs, engineer_features(rs, rt), Len(rs))

(***************************************************************************)
(* Projection blender.  A string is the sequence of its characters or      *)
(* fragments; a context key that is not in the dict holds Absent, and a    *)
(* key whose CSV cell was empty holds the empty string.                    *)
(***************************************************************************)
Absent == [k |-> "absent", n |-> 0, d |-> 1]

\* the empty string "" as a context value
EmptyText == [k |-> "text", n |-> 0, d |-> 1]

\* context.get(key, default)
CtxGet(context, key, default) ==
    IF context[key].k = "absent" THEN default ELSE context[key]

\* latest.get(key, default): every key is present in an engineered row
RowGet(latest, key, default) ==
    IF key \in DOMAIN latest THEN latest[key] ELSE default

UpperCase == <<"A", "B", "C", "D", "E", "F", "G", "H", "I", "J", "K", "L", "M",
               "N", "O", "P", "Q", "R", "S", "T", "U", "V", "W", "X", "Y", "Z">>

LowerCase == <<"a", "b", "c", "d", "e", "f", "g", "h", "i", "j", "k", "l", "m",
               "n", "o", "p", "q", "r", "s", "t", "u", "v", "w", "x", "y", "z">>

LowerChar(c) ==
    IF \E i \in 1..26 : UpperCase[i] = c
    THEN LowerCase[CHOOSE i \in 1..26 : UpperCase[i] = c]
    ELSE c

\* str.lower()
Lower(str) == [i \in 1..Len(str) |-> LowerChar(str[i])]

\* sub in str
Contains(str, sub) ==
    \E i \in 0..(Len(str) - Len(sub)) : SubSeq(str, i + 1, i + Len(sub)) = sub

Chars_questionable == <<"q", "u", "e", "s", "t", "i", "o", "n", "a", "b", "l", "e">>

Chars_probable == <<"p", "r", "o", "b", "a", "b", "l", "e">>

Chars_out == <<"o", "u", "t">>

\* the modifier with the tests in the order out, probable, questionable
_injury_minutes_modifier_out_first(status) ==
    IF status = <<>> THEN Num(1)
    ELSE LET lowered == Lower(status)
         IN  IF Contains(lowered, Chars_out) THEN Num(0)
             ELSE IF Contains(lowered, Chars_probable) THEN Rat(97, 100)
             ELSE IF Contains(lowered, Chars_questionable) THEN Rat(23, 25)
             ELSE Num(1)

\* the status is a character sequence; an absent or empty status is <<>>
_injury_minutes_modifier(status) ==
    IF status = <<>> THEN Num(1)
    ELSE LET lowered == Lower(status)
         IN  IF Contains(lowered, Chars_questionable) THEN Rat(23, 25)
             ELSE IF Contains(lowered, Chars_probable) THEN Rat(97, 100)
             ELSE IF Contains(lowered, Chars_out) THEN Num(0)
             ELSE Num(1)

_safe(value, fallback) ==
    IF IsNone(value) THEN fallback
    ELSE IF IsNaN(value) THEN fallback
    ELSE value

\* Python's `x and y` used as a condition
BothTruthy(x, y) == Truthy(x) /\ Truthy(y)

\* "; ".join(notes) as a sequence of fragments
RECURSIVE Join(_)
Join(notes) ==
    IF notes = <<>> THEN <<>>
    ELSE IF Len(notes) = 1 THEN notes[1]
    ELSE notes[1] \o <<"; ">> \o Join(Tail(notes))

\* the minutes blend with weights that do not add up to one
MinutesBlendHeavy(latest, context) ==
    LET base_minutes == _safe(RowGet(latest, "minutes_avg_5", None), latest.minutes)
        projected_minutes == CtxGet(context, "projected_minutes", base_minutes)
        minutes_trend == RowGet(latest, "minutes_trend", Num(0))
        blended == Add(Add(Mul(Rat(11, 20), projected_minutes),
                           Mul(Rat(11, 20), base_minutes)), minutes_trend)
        modified == Mul(blended, _injury_minutes_modifier(context.injury_status))
    IN  [base_minutes |-> base_minutes, minutes_blend |-> PyMax(modified, Num(0))]

\* lines 178-183: the minutes blend
MinutesBlend(latest, context) ==
    LET base_minutes == _safe(RowGet(latest, "minutes_avg_5", None), latest.minutes)
        projected_minutes == CtxGet(context, "projected_minutes", base_minutes)
        minutes_trend == RowGet(latest, "minutes_trend", Num(0))
        blended == Add(Add(Mul(Rat(11, 20), projected_minutes),
                           Mul(Rat(9, 20), base_minutes)), minutes_trend)
        modified == Mul(blended, _injury_minutes_modifier(context.injury_status))
    IN  [base_minutes |-> base_minutes, minutes_blend |-> PyMax(modified, Num(0))]

\* lines 185-190: usage and the pace terms
UsageBlend(latest, context) ==
    LET usage == Or(RowGet(latest, "usage_avg_5", None), RowGet(latest, "usage_rate", None))
        base_usage == IF ~IsNone(usage)
                      THEN _safe(usage, CtxGet(context, "usage_rate", Num(0)))
                      ELSE None
        pace_context == CtxGet(context, "pace_context",
                               Or(Or(RowGet(latest, "pace_avg_5", None),
                                     RowGet(latest, "pace", None)), Num(100)))
        pace_anchor == _safe(RowGet(latest, "pace_avg_5", None), pace_context)
        usage_adjustment == Add(Num(1), Div(Sub(pace_context, pace_anchor), Num(100)))
    IN  [base_usage |-> base_usage,
         pace_context |-> pace_context,
         pace_anchor |-> pace_anchor,
         expected_usage |->
            IF ~IsNone(base_usage) THEN Mul(base_usage, usage_adjustment) ELSE None]

\* lines 192-197: efficiency
EfficiencyBlend(latest, context) ==
    LET eff == Or(RowGet(latest, "ts_avg_5", None),
                  RowGet(latest, "true_shooting_pct", None))
        base_eff == IF ~IsNone(eff)
                    THEN _safe(eff, CtxGet(context, "true_shooting_pct", Rat(14, 25)))
                    ELSE None
        opp_def_anchor == _safe(RowGet(latest, "opp_def_avg_5", None),
                                RowGet(latest, "opponent_def_rating", Num(110)))
        opp_scheme == CtxGet(context, "opponent_def_rating", opp_def_anchor)
        efficiency_adjustment ==
            IF Truthy(opp_def_anchor)
            THEN Sub(Num(1), Div(Sub(opp_scheme, opp_def_anchor), Num(250)))
            ELSE Num(1)
    IN  [expected_efficiency |->
            IF ~IsNone(base_eff) THEN Mul(base_eff, efficiency_adjustment) ELSE None]

\* lines 199-207: expected points from the prior and the four factors
PointsBlend(latest, m, u, e) ==
    LET points_prior == _safe(RowGet(latest, "points_avg_5", None),
                              RowGet(latest, "points", Num(0)))
        latest_minutes == _safe(RowGet(latest, "minutes_avg_5", None),
                                RowGet(latest, "minutes", m.base_minutes))
        minutes_factor == IF Truthy(latest_minutes) THEN Div(m.minutes_blend, latest_minutes)
                          ELSE Num(1)
        usage_factor == IF BothTruthy(u.expected_usage, u.base_usage)
                        THEN Div(u.expected_usage, u.base_usage) ELSE Num(1)
        eff_anchor == _safe(RowGet(latest, "ts_avg_5", None),
                            RowGet(latest, "true_shooting_pct", Rat(14, 25)))
        eff_factor == IF BothTruthy(e.expected_efficiency, eff_anchor)
                      THEN Div(e.expected_efficiency, eff_anchor) ELSE Num(1)
        pace_factor == Add(Num(1), Div(Sub(u.pace_context, u.pace_anchor), Num(110)))
    IN  Mul(Mul(Mul(Mul(points_prior, minutes_factor), usage_factor), eff_factor),
            pace_factor)

\* lines 209-220: the composite score assigned to the local expected_score
ScoreBlend(latest, context, m, u, e, expected_points) ==
    LET sorare_prior == Or(Or(RowGet(latest, "sorare_mean_10", None),
                              RowGet(latest, "sorare_score", None)), expected_points)
        pace_bonus == Mul(Sub(u.pace_context, u.pace_anchor), Rat(1, 4))
        vegas_total == CtxGet(context, "vegas_total", Num(220))
        vegas_adjustment == Mul(Sub(vegas_total, Num(220)), Rat(1, 10))
        \* expected_usage or 0.55 * base_usage or 0.0
        usage_term == IF Truthy(u.expected_usage) THEN u.expected_usage
                      ELSE Or(Mul(Rat(11, 20), u.base_usage), Num(0))
    IN  Add(Add(Add(Add(Mul(Rat(7, 20), sorare_prior),
                        Mul(Rat(2, 5), Add(Mul(m.minutes_blend, Rat(23, 20)), usage_term))),
                    Mul(Rat(3, 20), Add(Mul(Or(e.expected_efficiency, Rat(14, 25)), Num(60)),
                                        pace_bonus))),
                Mul(Rat(1, 10), expected_points)),
            vegas_adjustment)

\* lines 222-225: the confidence interval
Interval(latest, expected_points) ==
    LET points_std == Or(Or(RowGet(latest, "points_std_10", None),
                            RowGet(latest, "sorare_std_10", None)), Num(6))
        ci_width == PyMax(Num(4), Mul(points_std, Rat(23, 20)))
    IN  [ci_width |-> ci_width,
         lower_ci |-> PyMax(Num(0), Sub(expected_points, ci_width)),
         upper_ci |-> Add(expected_points, ci_width)]

\* the notes list with a note for the efficiency-spike flag as well
NotesWithSpike(latest, context) ==
    (IF latest.flag_high_pace # 0
     THEN << <<"Recent games at above-average pace">> >> ELSE <<>>)
    \o (IF latest.flag_low_minutes # 0
        THEN << <<"Recent minutes dip to monitor">> >> ELSE <<>>)
    \o (IF latest.flag_efficiency_spike # 0
        THEN << <<"Efficiency spike in recent stretch">> >> ELSE <<>>)
    \o (IF context.injury_status # <<>>
        THEN << <<"Injury status: ">> \o context.injury_status >> ELSE <<>>)
    \o (IF latest.flag_scoring_run # 0
        THEN << <<"Scoring surge in recent stretch">> >> ELSE <<>>)

\* lines 227-235: the notes list
Notes(latest, context) ==
    (IF latest.flag_high_pace # 0
     THEN << <<"Recent games at above-average pace">> >> ELSE <<>>)
    \o (IF latest.flag_low_minutes # 0
        THEN << <<"Recent minutes dip to monitor">> >> ELSE <<>>)
    \o (IF context.injury_status # <<>>
        THEN << <<"Injury status: ">> \o context.injury_status >> ELSE <<>>)
    \o (IF latest.flag_scoring_run # 0
        THEN << <<"Scoring surge in recent stretch">> >> ELSE <<>>)

\* line 169
PlayerId(context) ==
    IF context.player_id # "" THEN context.player_id
    ELSE IF context.player_name # "" THEN context.player_name
    ELSE "unknown_player"

\* float(context.get(key, ...)) on the empty string raises ValueError: lines
\* 179, 187, 195 and 211 always convert their key, lines 186 and 193 only when
\* the row has a usage or an efficiency
FloatRaises(latest, context) ==
    \/ \E key \in {"projected_minutes", "pace_context", "opponent_def_rating",
                    "vegas_total"} : context[key] = EmptyText
    \/ /\ context.usage_rate = EmptyText
       /\ ~IsNone(Or(RowGet(latest, "usage_avg_5", None),
                     RowGet(latest, "usage_rate", None)))
    \/ /\ context.true_shooting_pct = EmptyText
       /\ ~IsNone(Or(RowGet(latest, "ts_avg_5", None),
                     RowGet(latest, "true_shooting_pct", None)))

\* lines 168-247 on latest = features[-1]: "ValueError" for a float() of the
\* empty string, "TypeError" for 0.55 * base_usage with base_usage None, else
\* the ProjectionResult of lines 237-247
Blend(latest, context) ==
    LET m == MinutesBlend(latest, context)
        u == UsageBlend(latest, context)
        e == EfficiencyBlend(latest, context)
        expected_points == PointsBlend(latest, m, u, e)
        ci == Interval(latest, expected_points)
    IN  IF FloatRaises(latest, context)
        THEN [status |-> "ValueError"]
        ELSE IF ~Truthy(u.expected_usage) /\ IsNone(u.base_usage)
        THEN [status |-> "TypeError"]
        ELSE [status |-> "ok",
              player_id |-> PlayerId(context),
              expected_points |-> expected_points,
              expected_score |-> expected_points,
              expected_minutes |-> m.minutes_blend,
              expected_usage |-> u.expected_usage,
              expected_efficiency |-> e.expected_efficiency,
              lower_ci |-> ci.lower_ci,
              upper_ci |-> ci.upper_ci,
              notes |-> Join(Notes(latest, context))]

\* the call's outcome: "ValueError" for an empty feature list, else the blend
\* of its last row
project_player_game(feature_rows, context) ==
    IF Len(feature_rows) = 0
    THEN [status |-> "ValueError"]
    ELSE Blend(feature_rows[Len(feature_rows)], context)

(***************************************************************************)
(* Walk-forward backtester.                                                *)
(***************************************************************************)
\* datetime.date().isoformat() of a game day
IsoFormat(day) == <<"iso", day>>

\* history[-5:]
Last5(history) ==
    SubSeq(history, IF Len(history) > 5 THEN Len(history) - 4 ELSE 1, Len(history))

\* the synthetic context with the mean of every game of history for its minutes
BacktestContextSeason(history, actual) ==
    LET pace_context == Or(actual.pace, Mean(Column(Last5(history), "pace")))
        opp_def_context == Or(actual.opponent_def_rating,
                              Mean(Column(Last5(history), "opponent_def_rating")))
    IN  [player_id |-> "unknown_player",
         player_name |-> "",
         projected_minutes |-> Mean(Column(history, "minutes")),
         injury_status |-> <<"H", "e", "a", "l", "t", "h", "y">>,
         pace_context |-> pace_context,
         vegas_total |-> Add(Num(220), Mul(Sub(pace_context, Num(100)), Rat(3, 2))),
         opponent_def_rating |-> opp_def_context,
         usage_rate |-> Absent,
         true_shooting_pct |-> Absent]

\* the synthetic context of lines 262-272
BacktestContext(history, actual) ==
    LET recent_minutes == Column(Last5(history), "minutes")
        pace_context == Or(actual.pace, Mean(Column(Last5(history), "pace")))
        opp_def_context == Or(actual.opponent_def_rating,
                              Mean(Column(Last5(history), "opponent_def_rating")))
    IN  [player_id |-> "unknown_player",
         player_name |-> "",
         projected_minutes |-> Mean(recent_minutes),
         injury_status |-> <<"H", "e", "a", "l", "t", "h", "y">>,
         pace_context |-> pace_context,
         vegas_total |-> Add(Num(220), Mul(Sub(pace_context, Num(100)), Rat(3, 2))),
         opponent_def_rating |-> opp_def_context,
         usage_rate |-> Absent,
         true_shooting_pct |-> Absent]

\* history = rows: the slice forgotten
HistoryWhole(rs, t) == rs

\* history = rows[:idx + 1]: the slice taken through the evaluated record
HistoryThrough(rs, t) == SubSeq(rs, 1, t)

\* history = rows[:idx]
History(rs, t) == SubSeq(rs, 1, t - 1)

\* lines 274-284: the record appended for the evaluated game, or the
\* exception the projection raised
BacktestRecord(actual, projection) ==
    IF projection.status # "ok" THEN [raised |-> TRUE, out |-> <<>>]
    ELSE [raised |-> FALSE,
          out |-> << [game_date |-> IsoFormat(actual.game_date),
                      opponent |-> actual.opponent,
                      projected_points |-> projection.expected_points,
                      actual_points |-> actual.points,
                      projection_minutes |-> projection.expected_minutes,
                      actual_minutes |-> actual.minutes,
                      notes |-> projection.notes] >>]

\* one pass of the loop body for the record at 1-based position t (idx = t - 1):
\* nothing appended (skip), one record appended, or an exception
BacktestIteration(rs, t, rt) ==
    LET history == History(rs, t)
        actual == rs[t]
    IN  IF Len(history) < 5 THEN [raised |-> FALSE, out |-> <<>>]
        ELSE IF engineer_features_raises(history, rt) THEN [raised |-> TRUE, out |-> <<>>]
             \* features has a row per game of history, five at least, and
             \* project_player_game blends features[-1]
             ELSE BacktestRecord(actual, Blend(engineer_features(history, rt)[Len(history)],
                                               BacktestContext(history, actual)))

\* the loop with a notes list made once, before the loop, so that every record
\* carries the notes of the records before it
RECURSIVE BacktestLoopCarried(_, _, _, _)
BacktestLoopCarried(rs, t, rt, results) ==
    IF t > Len(rs) THEN [status |-> "ok", results |-> results]
    ELSE LET it == BacktestIteration(rs, t, rt)
             carried == IF results = <<>> THEN <<>> ELSE results[Len(results)].notes
         IN  IF it.raised THEN [status |-> "AttributeError", results |-> <<>>]
             ELSE IF it.out = <<>> THEN BacktestLoopCarried(rs, t + 1, rt, results)
             ELSE BacktestLoopCarried(rs, t + 1, rt,
                      Append(results, [it.out[1] EXCEPT !.notes = carried \o @]))

\* the loop over range(len(rows) - lookback, len(rows)), from position t on
RECURSIVE BacktestLoop(_, _, _, _)
BacktestLoop(rs, t, rt, results) ==
    IF t > Len(rs) THEN [status |-> "ok", results |-> results]
    ELSE LET it == BacktestIteration(rs, t, rt)
         IN  IF it.raised THEN [status |-> "AttributeError", results |-> <<>>]
             ELSE BacktestLoop(rs, t + 1, rt, results \o it.out)

\* backtest_recent_games guarding with len(rows) < lookback
backtest_recent_games_strict(rs, lookback, rt) ==
    IF Len(rs) < lookback
    THEN [status |-> "ValueError", results |-> <<>>]
    ELSE BacktestLoop(rs, IF Len(rs) > lookback THEN Len(rs) - lookback + 1 ELSE 1, rt, <<>>)

backtest_recent_games(rs, lookback, rt) ==
    IF Len(rs) <= lookback
    THEN [status |-> "ValueError", results |-> <<>>]
    ELSE BacktestLoop(rs, Len(rs) - lookback + 1, rt, <<>>)

(***************************************************************************)
(* Inputs: the stat lines a game can have and the contexts of a projection.*)
(***************************************************************************)
Nominal == [minutes |-> Num(30), usage_rate |-> Num(25), true_shooting_pct |-> Rat(14, 25),
            sorare_score |-> Num(40), points |-> Num(20), pace |-> Num(100),
            opponent_def_rating |-> Num(110)]

Hot == [minutes |-> Num(36), usage_rate |-> Num(30), true_shooting_pct |-> Rat(3, 5),
        sorare_score |-> Num(52), points |-> Num(30), pace |-> Num(105),
        opponent_def_rating |-> Num(115)]

Zero == [minutes |-> Num(0), usage_rate |-> Num(0), true_shooting_pct |-> Num(0),
         sorare_score |-> Num(0), points |-> Num(0), pace |-> Num(100),
         opponent_def_rating |-> Num(110)]

Missing == [minutes |-> NaN, usage_rate |-> NaN, true_shooting_pct |-> NaN,
            sorare_score |-> NaN, points |-> NaN, pace |-> NaN,
            opponent_def_rating |-> NaN]

StatLines == {Nominal, Hot, Zero, Missing}

\* a game whose minutes round to 0 while the other stats were recorded
Cameo == [Nominal EXCEPT !.minutes = Num(0)]

\* the typed record load_game_logs makes of a row, games being dated in order
GameRecord(day, line) ==
    [game_date |-> day, opponent |-> "OPP",
     minutes |-> line.minutes, usage_rate |-> line.usage_rate,
     true_shooting_pct |-> line.true_shooting_pct, sorare_score |-> line.sorare_score,
     points |-> line.points, pace |-> line.pace,
     opponent_def_rating |-> line.opponent_def_rating]

StatLine(r) ==
    [minutes |-> r.minutes, usage_rate |-> r.usage_rate,
     true_shooting_pct |-> r.true_shooting_pct, sorare_score |-> r.sorare_score,
     points |-> r.points, pace |-> r.pace, opponent_def_rating |-> r.opponent_def_rating]

NoContext ==
    [player_id |-> "", player_name |-> "", projected_minutes |-> Absent,
     injury_status |-> <<>>, pace_context |-> Absent, vegas_total |-> Absent,
     opponent_def_rating |-> Absent, usage_rate |-> Absent, true_shooting_pct |-> Absent]

ScenarioContext ==
    [NoContext EXCEPT !.projected_minutes = Num(30), !.pace_context = Num(100),
                      !.opponent_def_rating = Num(110), !.vegas_total = Num(220)]

InjuryContext ==
    [NoContext EXCEPT !.player_id = "p1", !.projected_minutes = Num(30),
                      !.vegas_total = Num(230),
                      !.injury_status = <<"Q", "u", "e", "s", "t", "i", "o", "n", "a",
                                          "b", "l", "e">>]

RoadContext ==
    [NoContext EXCEPT !.player_name = "n1", !.pace_context = Num(111),
                      !.opponent_def_rating = Num(135)]

OutContext ==
    [NoContext EXCEPT !.projected_minutes = Num(36), !.injury_status = <<"O", "u", "t">>]

BenchedContext ==
    [NoContext EXCEPT !.injury_status = <<"O", "U", "T">>]

\* an opponent rated far above every defence of the log
LockdownContext ==
    [NoContext EXCEPT !.opponent_def_rating = Num(400)]

Contexts == {NoContext, ScenarioContext, InjuryContext, RoadContext, OutContext,
             BenchedContext, LockdownContext}

RollingKeys == {"minutes", "points"}

\* the changes of a player's minutes from one game to the next
Steps == {-3, 0, 2}

\* the words an injury report is written with
Words == {<<"Q", "u", "e", "s", "t", "i", "o", "n", "a", "b", "l", "e">>,
          <<"P", "R", "O", "B", "A", "B", "L", "E">>,
          <<"O", "u", "t">>,
          <<"P", "r", "o">>,
          <<"b", "a", "b", "l", "e">>,
          <<"H", "e", "a", "l", "t", "h", "y">>}

RECURSIVE Concat(_)
Concat(ws) == IF ws = <<>> THEN <<>> ELSE Head(ws) \o Concat(Tail(ws))

\* the status strings of up to MaxWords words
Statuses == {Concat(ws) : ws \in UNION {[1..n -> Words] : n \in 0..MaxWords}}

(***************************************************************************)
(* CSV sources.  A cell is the sequence of its text: <<>> is the empty     *)
(* cell, <<x>> the text of the number x and IsoFormat(day) the text of a   *)
(* date.  Days are numbered from 1; a record without a date holds NoDate.  *)
(***************************************************************************)
NoDate == 0

DatetimeMin == 0

\* the cell of a stat: empty for a missing one
Cell(x) == IF x.k = "nan" THEN <<>> ELSE <<x>>

\* a row of the game-log CSV; the opponent cell names the row
CsvGame(day, opponent, line) ==
    [game_date |-> IF day = NoDate THEN <<>> ELSE IsoFormat(day),
     opponent |-> opponent,
     minutes |-> Cell(line.minutes), usage_rate |-> Cell(line.usage_rate),
     true_shooting_pct |-> Cell(line.true_shooting_pct),
     sorare_score |-> Cell(line.sorare_score), points |-> Cell(line.points),
     pace |-> Cell(line.pace), opponent_def_rating |-> Cell(line.opponent_def_rating)]

\* line 39: datetime.fromisoformat(cell) if cell else None
ParseDate(cell) == IF Len(cell) = 0 THEN NoDate ELSE cell[2]

\* line 49: float(cell) if cell != "" else float("nan")
ParseFloat(cell) == IF Len(cell) = 0 THEN NaN ELSE cell[1]

\* lines 38-49: the typed record of a row
ParseRow(row) ==
    [game_date |-> ParseDate(row.game_date), opponent |-> row.opponent,
     minutes |-> ParseFloat(row.minutes), usage_rate |-> ParseFloat(row.usage_rate),
     true_shooting_pct |-> ParseFloat(row.true_shooting_pct),
     sorare_score |-> ParseFloat(row.sorare_score), points |-> ParseFloat(row.points),
     pace |-> ParseFloat(row.pace),
     opponent_def_rating |-> ParseFloat(row.opponent_def_rating)]

\* line 50: r["game_date"] or datetime.min
SortKey(r) == IF r.game_date = NoDate THEN DatetimeMin ELSE r.game_date

\* an insertion that puts a record before the records of its own date
RECURSIVE InsertBefore(_, _)
InsertBefore(sorted, r) ==
    IF sorted = <<>> THEN <<r>>
    ELSE IF SortKey(Head(sorted)) < SortKey(r)
         THEN <<Head(sorted)>> \o InsertBefore(Tail(sorted), r)
         ELSE <<r>> \o sorted

\* a record goes after every record whose key is not greater than its own
RECURSIVE InsertByDate(_, _)
InsertByDate(sorted, r) ==
    IF sorted = <<>> THEN <<r>>
    ELSE IF SortKey(Head(sorted)) <= SortKey(r)
         THEN <<Head(sorted)>> \o InsertByDate(Tail(sorted), r)
         ELSE <<r>> \o sorted

\* line 50: list.sort(key=...), which is stable
RECURSIVE SortByDate(_)
SortByDate(rs) ==
    IF rs = <<>> THEN <<>>
    ELSE InsertByDate(SortByDate(SubSeq(rs, 1, Len(rs) - 1)), rs[Len(rs)])

\* line 51: rows[-trailing_games:] for trailing_games >= 0; -0 is 0, and
\* rows[0:] is the whole list
Trailing(rs, trailing_games) ==
    IF trailing_games = 0 THEN rs
    ELSE IF trailing_games >= Len(rs) THEN rs
    ELSE SubSeq(rs, Len(rs) - trailing_games + 1, Len(rs))

\* lines 35-51 on the rows of an existing file
load_game_logs(f, trailing_games) ==
    Trailing(SortByDate([i \in 1..Len(f) |-> ParseRow(f[i])]), trailing_games)

\* a row of the upcoming-context CSV
ContextRow(player_id, projected_minutes, pace_context, vegas_total, opponent_def_rating, injury_status) ==
    [player_id |-> player_id, projected_minutes |-> projected_minutes,
     pace_context |-> pace_context, vegas_total |-> vegas_total,
     opponent_def_rating |-> opponent_def_rating, injury_status |-> injury_status]

FullRow == ContextRow("p1", <<Num(30)>>, <<Num(100)>>, <<Num(220)>>, <<Num(110)>>, <<>>)

PartRow == ContextRow("p1", <<>>, <<Num(111)>>, <<>>, <<Num(135)>>, <<"O", "u", "t">>)

OtherRow == ContextRow("p2", <<Num(36)>>, <<>>, <<Num(230)>>, <<>>, <<>>)

BlankRow == ContextRow("p1", <<>>, <<>>, <<>>, <<>>, <<>>)

ContextRows == {FullRow, PartRow, OtherRow, BlankRow}

PlayerIds == {"p1", "p2", "p3"}

\* lines 300-302: a cell that is not empty becomes a float, an empty one stays ""
CoerceCell(cell) == IF Len(cell) = 0 THEN EmptyText ELSE cell[1]

\* the dict returned for a row, as the context of a projection: the file has
\* no player_name, usage_rate or true_shooting_pct column
AsContext(row) ==
    [NoContext EXCEPT !.player_id = row.player_id,
                      !.projected_minutes = CoerceCell(row.projected_minutes),
                      !.pace_context = CoerceCell(row.pace_context),
                      !.vegas_total = CoerceCell(row.vegas_total),
                      !.opponent_def_rating = CoerceCell(row.opponent_def_rating),
                      !.injury_status = row.injury_status]

\* the first matching row instead of the last
prepare_upcoming_context_first(f, player_id) ==
    LET matches == SelectSeq(f, LAMBDA row : row.player_id = player_id)
    IN  IF matches = <<>>
        THEN [status |-> "ValueError"]
        ELSE [status |-> "ok", row |-> AsContext(matches[1])]

\* lines 294-303 on the rows of an existing file
prepare_upcoming_context(f, player_id) ==
    LET matches == SelectSeq(f, LAMBDA row : row.player_id = player_id)
    IN  IF matches = <<>>
        THEN [status |-> "ValueError"]
        ELSE [status |-> "ok", row |-> AsContext(matches[Len(matches)])]

(***************************************************************************)
(* The state machine: a game log that grows, and the calls made on it.     *)
(***************************************************************************)
NoArg == [lookback |-> 0, rt |-> "nan", context |-> NoContext, key |-> "", window |-> 0,
          status |-> <<>>, trailing_games |-> 0, player_id |-> ""]

NoRet == [status |-> "none"]

\* games off the nominal stat line
OddGames(rs) == {i \in 1..Len(rs) : StatLine(rs[i]) # Nominal}

\* the two runtimes differ only on a log that holds a NaN
Runtimes(rs) ==
    IF \E i \in 1..Len(rs) : StatLine(rs[i]) = Missing THEN PstdevOnNaN ELSE {"nan"}

Init ==
    /\ rows = <<>>
    /\ file = <<>>
    /\ op = "none"
    /\ arg = NoArg
    /\ ret = NoRet

\* a call is made on the log as loaded
Loaded == op \in {"none", "load"}

\* the log gains the next game
NextGame(line) ==
    /\ Len(rows) < MaxGames
    /\ line # Nominal => Cardinality(OddGames(rows)) < MaxOdd
    /\ rows' = Append(rows, GameRecord(Len(rows) + 1, line))
    /\ op' = "load"
    /\ arg' = NoArg
    /\ ret' = NoRet
    /\ UNCHANGED file

Rolling(key, window) ==
    /\ Loaded
    /\ op' = "_rolling"
    /\ arg' = [NoArg EXCEPT !.key = key, !.window = window]
    /\ ret' = [status |-> "ok", values |-> _rolling(Column(rows, key), window)]
    /\ UNCHANGED <<rows, file>>

\* games whose minutes cell is empty
MissingGames(rs) == {i \in 1..Len(rs) : IsNaN(rs[i].minutes)}

\* the minutes of the last game that has them, 30 before any
LastMinutes(rs) ==
    LET played == {i \in 1..Len(rs) : ~IsNaN(rs[i].minutes)}
    IN  IF played = {} THEN Num(30)
        ELSE rs[CHOOSE i \in played : \A j \in played : j <= i].minutes

\* the log gains a game whose minutes moved by a step
WalkGame(step) ==
    /\ Len(rows) <= MaxWindow
    /\ rows' = Append(rows, GameRecord(Len(rows) + 1,
                    [Nominal EXCEPT !.minutes = Add(LastMinutes(rows), Num(step))]))
    /\ op' = "load"
    /\ arg' = NoArg
    /\ ret' = NoRet
    /\ UNCHANGED file

\* the log gains a game without stats
MissingGame ==
    /\ Len(rows) <= MaxWindow
    /\ Cardinality(MissingGames(rows)) < MaxOdd
    /\ rows' = Append(rows, GameRecord(Len(rows) + 1, Missing))
    /\ op' = "load"
    /\ arg' = NoArg
    /\ ret' = NoRet
    /\ UNCHANGED file

RollingStd(key, window, rt) ==
    /\ Loaded
    /\ op' = "_rolling_std"
    /\ arg' = [NoArg EXCEPT !.key = key, !.window = window, !.rt = rt]
    /\ ret' = LET values == _rolling_std(Column(rows, key), window, rt)
              IN  IF Raises(values) THEN [status |-> "AttributeError", values |-> <<>>]
                  ELSE [status |-> "ok", values |-> values]
    /\ UNCHANGED <<rows, file>>

RollingSlope(key, window) ==
    /\ Loaded
    /\ op' = "_rolling_slope"
    /\ arg' = [NoArg EXCEPT !.key = key, !.window = window]
    /\ ret' = [status |-> "ok", values |-> _rolling_slope(Column(rows, key), window)]
    /\ UNCHANGED <<rows, file>>

Engineer(rt) ==
    /\ Loaded
    /\ ret' = IF engineer_features_raises(rows, rt)
              THEN [status |-> "AttributeError", features |-> <<>>]
              ELSE [status |-> "ok", features |-> engineer_features(rows, rt)]
    /\ op' = "engineer_features"
    /\ arg' = [NoArg EXCEPT !.rt = rt]
    \* a call that raises does so at line 120 or 123, before any row is copied
    /\ rows' = IF engineer_features_raises(rows, rt) THEN rows ELSE rows_after(rows, rt)
    /\ UNCHANGED file

\* the blender on the features engineered from the log
Project(context, rt) ==
    /\ Loaded
    /\ ~engineer_features_raises(rows, rt)
    /\ arg' = [NoArg EXCEPT !.context = context, !.rt = rt]
    /\ ret' = project_player_game(engineer_features(rows, rt), context)
    /\ op' = "project_player_game"
    /\ UNCHANGED <<rows, file>>

Backtest(lookback, rt) ==
    /\ Loaded
    /\ op' = "backtest_recent_games"
    /\ arg' = [NoArg EXCEPT !.lookback = lookback, !.rt = rt]
    /\ ret' = backtest_recent_games(rows, lookback, rt)
    /\ UNCHANGED <<rows, file>>

\* the modifier of a status string
Modifier(status) ==
    /\ Loaded
    /\ op' = "_injury_minutes_modifier"
    /\ arg' = [NoArg EXCEPT !.status = status]
    /\ ret' = [status |-> "ok", value |-> _injury_minutes_modifier(status)]
    /\ UNCHANGED <<rows, file>>

\* the game-log file gains a row
WriteGame(day, line) ==
    /\ Len(file) < MaxFile
    /\ file' = Append(file, CsvGame(day, Len(file) + 1, line))
    /\ op' = "write"
    /\ arg' = NoArg
    /\ ret' = NoRet
    /\ UNCHANGED rows

LoadGameLogs(trailing_games) ==
    /\ op \in {"none", "write"}
    /\ op' = "load_game_logs"
    /\ arg' = [NoArg EXCEPT !.trailing_games = trailing_games]
    /\ ret' = [status |-> "ok", rows |-> load_game_logs(file, trailing_games)]
    /\ UNCHANGED <<rows, file>>

\* the context file gains a row
WriteContext(row) ==
    /\ Len(file) < MaxFile
    /\ file' = Append(file, row)
    /\ op' = "write"
    /\ arg' = NoArg
    /\ ret' = NoRet
    /\ UNCHANGED rows

Prepare(player_id) ==
    /\ op \in {"none", "load", "write"}
    /\ op' = "prepare_upcoming_context"
    /\ arg' = [NoArg EXCEPT !.player_id = player_id]
    /\ ret' = prepare_upcoming_context(file, player_id)
    /\ UNCHANGED <<rows, file>>

\* the blender on the prepared context and the features of the log
ProjectUpcoming ==
    /\ op = "prepare_upcoming_context"
    /\ ret.status = "ok"
    /\ arg' = [NoArg EXCEPT !.context = ret.row, !.player_id = arg.player_id]
    /\ ret' = project_player_game(engineer_features(rows, "nan"), ret.row)
    /\ op' = "project_player_game"
    /\ UNCHANGED <<rows, file>>

\* the caller takes the result; the log stands as loaded
Return ==
    /\ op \in {"engineer_features", "project_player_game", "backtest_recent_games"}
    /\ op' = "load"
    /\ arg' = NoArg
    /\ ret' = NoRet
    /\ UNCHANGED <<rows, file>>

Load == \E line \in StatLines : NextGame(line)

NextRolling ==
    \/ Load
    \/ \E key \in RollingKeys, window \in 1..MaxWindow : Rolling(key, window)

NextFeatures ==
    \/ Load
    \/ \E rt \in Runtimes(rows) : Engineer(rt)

NextProject ==
    \/ Load
    \/ \E context \in Contexts, rt \in Runtimes(rows) : Project(context, rt)

NextBacktest ==
    \/ Load
    \/ \E lookback \in 0..MaxLookback, rt \in Runtimes(rows) : Backtest(lookback, rt)

NextInjury == \E status \in Statuses : Modifier(status)

NextLoad ==
    \/ \E day \in 0..MaxDay, line \in {Nominal, Missing} : WriteGame(day, line)
    \/ \E trailing_games \in 0..(MaxFile + 1) : LoadGameLogs(trailing_games)

\* the log is loaded before the context file is written
NextUpcoming ==
    \/ file = <<>> /\ NextGame(Nominal)
    \/ \E row \in ContextRows : WriteContext(row)
    \/ \E player_id \in PlayerIds : Prepare(player_id)
    \/ ProjectUpcoming

\* calls of the three functions one after another, in any order
NextCalls ==
    \/ \E line \in {Nominal, Missing} : NextGame(line)
    \/ \E rt \in Runtimes(rows) : Engineer(rt)
    \/ \E context \in {NoContext, InjuryContext}, rt \in Runtimes(rows) : Project(context, rt)
    \/ \E lookback \in 1..MaxLookback, rt \in Runtimes(rows) : Backtest(lookback, rt)
    \/ Return

SpecCalls == Init /\ [][NextCalls]_vars

NextStd ==
    \/ Load
    \/ \E key \in RollingKeys, window \in 1..MaxWindow, rt \in Runtimes(rows) :
          RollingStd(key, window, rt)

\* the rolling standard deviation on a column of the log
SpecStd == Init /\ [][NextStd]_vars

NextSlope ==
    \/ \E step \in Steps : WalkGame(step)
    \/ MissingGame
    \/ \E key \in RollingKeys, window \in 1..MaxWindow : RollingSlope(key, window)

\* the rolling slope on a column of the log
SpecSlope == Init /\ [][NextSlope]_vars

NextBenched ==
    \/ \E line \in {Nominal, Cameo} : NextGame(line)
    \/ \E context \in {OutContext, BenchedContext, InjuryContext}, rt \in Runtimes(rows) :
          Project(context, rt)

\* the blender for a player who may be ruled out
SpecBenched == Init /\ [][NextBenched]_vars

NextLookback ==
    \/ \E line \in {Nominal, Hot, Missing} : NextGame(line)
    \/ \E lookback \in 1..MaxLookback, rt \in Runtimes(rows) : Backtest(lookback, rt)

\* the backtester under lookback counts that differ by one
SpecLookback == Init /\ [][NextLookback]_vars

\* the loader on a game-log file
SpecLoad == Init /\ [][NextLoad]_vars

\* the context of an upcoming game, prepared from its file and projected
SpecUpcoming == Init /\ [][NextUpcoming]_vars

\* the injury modifier on status strings
SpecInjury == Init /\ [][NextInjury]_vars

\* the rolling mean on a column of the log
SpecRolling == Init /\ [][NextRolling]_vars

\* the feature engine on the log
SpecFeatures == Init /\ [][NextFeatures]_vars

\* the blender on the engineered log
SpecProject == Init /\ [][NextProject]_vars

\* the backtester on the log
SpecBacktest == Init /\ [][NextBacktest]_vars

(***************************************************************************)
(* Properties.  Positions are 1-based: the spec's index i is position i+1. *)
(***************************************************************************)
\* two floats holding the same number
SameNumber(a, b) == IsNum(a) /\ IsNum(b) /\ a.n * b.d = b.n * a.d

\* the sum of values[from..to], added one by one
RECURSIVE Total(_, _, _)
Total(values, from, to) ==
    IF from > to THEN Num(0) ELSE Add(values[from], Total(values, from + 1, to))

\* the log with the stat line of the game at position t replaced
Replaced(rs, t, line) == [i \in 1..Len(rs) |-> IF i = t THEN GameRecord(i, line) ELSE rs[i]]

\* a stat line that differs from the given one in every field it can
Flip(line) == IF line = Nominal THEN Hot ELSE Nominal

\* the log with every game after position t changed to another stat line
LaterChanged(rs, t) ==
    [i \in 1..Len(rs) |-> IF i > t THEN GameRecord(i, Flip(StatLine(rs[i]))) ELSE rs[i]]

\* the log with every game after position t losing its values
LaterMissing(rs, t) ==
    [i \in 1..Len(rs) |-> IF i > t THEN GameRecord(i, Missing) ELSE rs[i]]

\* the stat line with pace and opponent rating of the game kept
KeepingPace(line, actual) ==
    [line EXCEPT !.pace = actual.pace, !.opponent_def_rating = actual.opponent_def_rating]

\* the position whose comparison record is the i-th of the results
Evaluated(i) == Len(rows) - Len(ret.results) + i

BacktestOk == op = "backtest_recent_games" /\ ret.status = "ok"

\* C1: in backtest_recent_games the comparison record of every evaluated index
\* t is made from records[0..t-1] and record t alone: changing the field values
\* of every record after t leaves the comparison record for t unchanged.
C1_LaterRecordsUnread ==
    BacktestOk =>
        \A i \in 1..Len(ret.results) :
            LET t == Evaluated(i)
            IN  /\ BacktestIteration(LaterChanged(rows, t), t, arg.rt).out = <<ret.results[i]>>
                /\ BacktestIteration(LaterMissing(rows, t), t, arg.rt).out = <<ret.results[i]>>

\* a backtest that evaluated an index with a later, off-nominal record after it
C1_Witness ==
    /\ BacktestOk
    /\ Len(ret.results) >= 2
    /\ StatLine(rows[Len(rows)]) = Hot

\* C2 as stated: projected_points and projection_minutes of the comparison
\* record for t are the same for any two inputs that agree on records[0..t-1]
\* and differ only in the field values of record t.
C2_EvaluatedRecordUnread ==
    BacktestOk =>
        \A i \in 1..Len(ret.results) : \A line \in StatLines :
            LET t == Evaluated(i)
                other == BacktestIteration(Replaced(rows, t, line), t, arg.rt).out
            IN  /\ Len(other) = 1
                /\ other[1].projected_points = ret.results[i].projected_points
                /\ other[1].projection_minutes = ret.results[i].projection_minutes

\* C2 amended: projection_minutes of the comparison record for t is the same
\* for any two inputs that agree on records[0..t-1], and projected_points is
\* the same when the two inputs also agree on pace and opponent_def_rating of
\* record t, the two fields the synthetic context takes from the actual game.
C2_OnlyPaceAndRatingRead ==
    BacktestOk =>
        \A i \in 1..Len(ret.results) : \A line \in StatLines :
            LET t == Evaluated(i)
                other == BacktestIteration(Replaced(rows, t, line), t, arg.rt).out
                kept == BacktestIteration(
                            Replaced(rows, t, KeepingPace(line, rows[t])), t, arg.rt).out
            IN  /\ Len(other) = 1
                /\ other[1].projection_minutes = ret.results[i].projection_minutes
                /\ Len(kept) = 1
                /\ kept[1].projected_points = ret.results[i].projected_points
                /\ kept[1].projection_minutes = ret.results[i].projection_minutes

\* a backtest whose evaluated record is off the nominal line, with a numeric
\* projection for it
C2_Witness ==
    /\ BacktestOk
    /\ Len(ret.results) >= 1
    /\ StatLine(rows[Len(rows)]) = Zero
    /\ IsNum(ret.results[Len(ret.results)].projected_points)

\* C3: _rolling returns one value per index; the value at index i is None when
\* i+1 < w and is otherwise the arithmetic mean of the w values at indices
\* i+1-w..i (NaN when one of them is NaN), for the windows w >= 1.
C3_RollingMean ==
    op = "_rolling" =>
        LET values == Column(rows, arg.key)
            w == arg.window
        IN  /\ Len(ret.values) = Len(values)
            /\ \A p \in 1..Len(values) :
                  IF p < w THEN IsNone(ret.values[p])
                  ELSE IF \E j \in (p + 1 - w)..p : IsNaN(values[j])
                       THEN IsNaN(ret.values[p])
                       ELSE SameNumber(Mul(ret.values[p], Num(w)),
                                       Total(values, p + 1 - w, p))

\* a rolling mean over a window of several games, undefined at first and then
\* moving with the games in the window
C3_Witness ==
    /\ op = "_rolling"
    /\ arg.window >= 2
    /\ Len(rows) > arg.window
    /\ IsNone(ret.values[arg.window - 1])
    /\ IsNum(ret.values[arg.window])
    /\ IsNum(ret.values[Len(rows)])
    /\ ret.values[Len(rows)] # ret.values[arg.window]

\* the 5-game means and the 10-game means and deviations of a feature row
Means5 == {"minutes_avg_5", "usage_avg_5", "ts_avg_5", "pace_avg_5", "opp_def_avg_5",
           "points_avg_5"}

Stats10 == {"minutes_avg_10", "usage_avg_10", "ts_avg_10", "sorare_mean_10",
            "sorare_std_10", "points_avg_10", "points_std_10"}

FeaturesOk == op = "engineer_features" /\ ret.status = "ok"

ProjectOk == op = "project_player_game" /\ ret.status = "ok"

\* the last ten values of a column are one and the same number
LastTenIdentical(key) ==
    /\ Len(rows) >= 10
    /\ AllSame(SubSeq(Column(rows, key), Len(rows) - 9, Len(rows)))

\* C5: for a history whose last 10 points values are identical, so that
\* points_std_10 of the latest feature record is 0, project_player_game returns
\* a confidence width (upper_ci minus expected_points) of exactly 4.0.
C5_FloorWidth ==
    (ProjectOk /\ LastTenIdentical("points") /\ IsNum(ret.expected_points)) =>
        SameNumber(Sub(ret.upper_ci, ret.expected_points), Num(4))

\* the composite of lines 209-220 for the call the state holds
Composite ==
    LET feature_rows == engineer_features(rows, arg.rt)
        latest == feature_rows[Len(rows)]
        m == MinutesBlend(latest, arg.context)
        u == UsageBlend(latest, arg.context)
        e == EfficiencyBlend(latest, arg.context)
    IN  ScoreBlend(latest, arg.context, m, u, e, PointsBlend(latest, m, u, e))

\* C6: the expected_score field of the ProjectionResult equals the composite
\* weighted sum 0.35*score_prior + 0.40*(minutes_blend*1.15 + usage term)
\* + 0.15*((efficiency or 0.56)*60 + pace bonus) + 0.10*expected_points
\* + (vegas_total - 220)*0.1.
C6_ScoreIsComposite ==
    ProjectOk => ret.expected_score = Composite

\* C7: backtest_recent_games fails with the insufficient-data error, and
\* produces no comparison record, whenever the number of records L is less than
\* or equal to the lookback k; for L > k it does not raise that error.
C7_InsufficientData ==
    op = "backtest_recent_games" =>
        /\ (Len(rows) <= arg.lookback) <=> (ret.status = "ValueError")
        /\ ret.status = "ValueError" => ret.results = <<>>

\* a backtest of a log that has exactly as many games as the lookback
C7_Witness ==
    /\ op = "backtest_recent_games"
    /\ Len(rows) >= 1
    /\ Len(rows) = arg.lookback
    /\ ret.status = "ValueError"

\* max(0, min(k, L - 5))
Evaluations(L, k) ==
    LET least == IF k < L - 5 THEN k ELSE L - 5
    IN  IF least > 0 THEN least ELSE 0

\* C8: for 1 <= k < L backtest_recent_games returns exactly one comparison
\* record for each index t with max(L-k, 5) <= t < L and none for any other
\* index, max(0, min(k, L-5)) records in all, in ascending order of t.
C8_OneRecordPerIndex ==
    (op = "backtest_recent_games" /\ 1 <= arg.lookback /\ arg.lookback < Len(rows)) =>
        /\ ret.status = "ok"
        /\ Len(ret.results) = Evaluations(Len(rows), arg.lookback)
        /\ \A i \in 1..Len(ret.results) :
              ret.results[i].game_date = IsoFormat(rows[Evaluated(i)].game_date)

\* C9: every numeric field of the ProjectionResult (expected_points,
\* expected_score, expected_minutes, lower_ci, upper_ci) is a finite number for
\* every non-empty feature sequence, also when the latest record carries the
\* missing-value sentinel and has no full 5-game window.
C9_FiniteOutputs ==
    ProjectOk =>
        /\ IsFinite(ret.expected_points)
        /\ IsFinite(ret.expected_score)
        /\ IsFinite(ret.expected_minutes)
        /\ IsFinite(ret.lower_ci)
        /\ IsFinite(ret.upper_ci)

\* C10: if the latest feature record has usage_avg_5 undefined and usage_rate
\* equal to the missing-value sentinel, expected_usage is absent (None), not 0;
\* likewise expected_efficiency is absent when ts_avg_5 is undefined and
\* true_shooting_pct is missing.
C10_AbsentNotZero ==
    (/\ ProjectOk
     /\ Len(rows) < 5
     /\ IsNaN(rows[Len(rows)].usage_rate)
     /\ IsNaN(rows[Len(rows)].true_shooting_pct)) =>
        /\ IsNone(ret.expected_usage)
        /\ IsNone(ret.expected_efficiency)

\* value > (fn/fd) * avg for two numbers, by cross-multiplication
Exceeds(value, avg, fn, fd) ==
    IsNum(value) /\ IsNum(avg) /\ value.n * avg.d * fd > fn * avg.n * value.d

\* value < (fn/fd) * avg for two numbers, by cross-multiplication
FallsShort(value, avg, fn, fd) ==
    IsNum(value) /\ IsNum(avg) /\ value.n * avg.d * fd < fn * avg.n * value.d

\* C19: at every index of engineer_features' output each flag is set exactly
\* when its 5-game anchor mean is defined and the threshold comparison holds
\* (pace > 1.02 x pace_avg_5, minutes < 0.90 x minutes_avg_5, true shooting
\* > 1.05 x ts_avg_5, points > 1.05 x points_avg_5), so all four flags are
\* false at every index i < 4.
C19_FlagsExact ==
    FeaturesOk =>
        \A p \in 1..Len(ret.features) :
            LET f == ret.features[p]
            IN  /\ {f.flag_high_pace, f.flag_low_minutes, f.flag_efficiency_spike,
                    f.flag_scoring_run} \subseteq {0, 1}
                /\ f.flag_high_pace = 1 <=>
                      (~IsNone(f.pace_avg_5) /\ Exceeds(f.pace, f.pace_avg_5, 51, 50))
                /\ f.flag_low_minutes = 1 <=>
                      (~IsNone(f.minutes_avg_5)
                       /\ FallsShort(f.minutes, f.minutes_avg_5, 9, 10))
                /\ f.flag_efficiency_spike = 1 <=>
                      (~IsNone(f.ts_avg_5)
                       /\ Exceeds(f.true_shooting_pct, f.ts_avg_5, 21, 20))
                /\ f.flag_scoring_run = 1 <=>
                      (~IsNone(f.points_avg_5) /\ Exceeds(f.points, f.points_avg_5, 21, 20))
                /\ p < 5 => /\ f.flag_high_pace = 0
                            /\ f.flag_low_minutes = 0
                            /\ f.flag_efficiency_spike = 0
                            /\ f.flag_scoring_run = 0

\* features in which a hot game past the fourth index raises its three flags
\* while the flags of the first rows stay down
C19_Witness ==
    /\ FeaturesOk
    /\ \E p \in 5..Len(ret.features) :
          /\ ret.features[p].flag_high_pace = 1
          /\ ret.features[p].flag_efficiency_spike = 1
          /\ ret.features[p].flag_scoring_run = 1
          /\ ret.features[p].flag_low_minutes = 0
          /\ ret.features[1].flag_high_pace = 0

\* the latest feature row of the call the state holds
Latest == engineer_features(rows, arg.rt)[Len(rows)]

\* C11: with every optional context field omitted, project_player_game uses
\* only historical values for minutes, expected_minutes = max(0, base minutes
\* + minutes_trend) with base minutes being minutes_avg_5 or else the latest
\* minutes, and expected_minutes is finite and non-negative.
C11_HistoricalMinutes ==
    (ProjectOk /\ arg.context = NoContext) =>
        LET base == IF IsNum(Latest.minutes_avg_5) THEN Latest.minutes_avg_5
                    ELSE Latest.minutes
        IN  /\ IsFinite(ret.expected_minutes)
            /\ ret.expected_minutes.n >= 0
            /\ ret.expected_minutes = PyMax(Num(0), Add(base, Latest.minutes_trend))

\* the last five games of the log have one and the same stat line, without NaN
LastFiveIdentical ==
    /\ Len(rows) >= 5
    /\ StatLine(rows[Len(rows)]) # Missing
    /\ \A i \in (Len(rows) - 4)..Len(rows) : StatLine(rows[i]) = StatLine(rows[Len(rows)])

\* the context names the 5-game means of minutes, pace and opponent rating
\* and no injury
ContextAtMeans ==
    /\ arg.context.projected_minutes = rows[Len(rows)].minutes
    /\ arg.context.pace_context = rows[Len(rows)].pace
    /\ arg.context.opponent_def_rating = rows[Len(rows)].opponent_def_rating
    /\ arg.context.injury_status = <<>>

\* C12: for a series constant over its last five games at least and a context
\* whose projected_minutes, pace_context and opponent_def_rating equal the
\* 5-game means, with no injury reduction, project_player_game returns
\* expected_points equal to points_avg_5.
C12_UnitFactors ==
    (ProjectOk /\ LastFiveIdentical /\ ContextAtMeans) =>
        SameNumber(ret.expected_points, rows[Len(rows)].points)

\* the constant scenario projected at its own means
C12_Witness ==
    /\ ProjectOk
    /\ Len(rows) >= 10
    /\ OddGames(rows) = {}
    /\ ContextAtMeans
    /\ ret.expected_points = Num(20)

\* C13: for every feature sequence and every projected_minutes value, a
\* context whose injury status is "Out" (in any letter case) makes
\* project_player_game return expected_minutes equal to 0.
C13_OutPlaysZero ==
    (ProjectOk /\ Lower(arg.context.injury_status) = Chars_out) =>
        ret.expected_minutes = Num(0)

\* the parts joined from the left with "; " between them
RECURSIVE Chain(_, _)
Chain(parts, n) ==
    IF n = 0 THEN <<>>
    ELSE IF n = 1 THEN parts[1]
    ELSE Chain(parts, n - 1) \o <<"; ">> \o parts[n]

\* the notes that apply, in the order pace, minutes, injury, scoring
Applicable ==
    (IF Latest.flag_high_pace = 1 THEN << <<"Recent games at above-average pace">> >>
     ELSE <<>>)
    \o (IF Latest.flag_low_minutes = 1 THEN << <<"Recent minutes dip to monitor">> >>
        ELSE <<>>)
    \o (IF Len(arg.context.injury_status) > 0
        THEN << <<"Injury status: ">> \o arg.context.injury_status >> ELSE <<>>)
    \o (IF Latest.flag_scoring_run = 1 THEN << <<"Scoring surge in recent stretch">> >>
        ELSE <<>>)

\* C20: the notes string lists the applicable notes in the fixed order
\* high-pace flag, low-minutes flag, injury status (present exactly when a
\* non-empty status was supplied), scoring-run flag, joined by "; "; no other
\* note is produced and the string is empty when none applies.
C20_NotesInOrder ==
    ProjectOk => ret.notes = Chain(Applicable, Len(Applicable))

\* a projection with three notes, the injury status between the two flags,
\* on a latest game that also raises the efficiency-spike flag
C20_Witness ==
    /\ ProjectOk
    /\ Len(rows) >= 5
    /\ StatLine(rows[Len(rows)]) = Hot
    /\ arg.context = InjuryContext
    /\ Len(Applicable) = 3
    /\ ret.notes = Applicable[1] \o <<"; ">> \o Applicable[2] \o <<"; ">> \o Applicable[3]

\* sub occurs in str when letter case is ignored
Occurs(sub, str) ==
    \E o \in 0..(Len(str) - Len(sub)) :
        \A k \in 1..Len(sub) : LowerChar(str[o + k]) = sub[k]

\* C14: the injury minutes modifier is decided by case-insensitive substring
\* tests in the order questionable, probable, out: "questionable" yields 0.92
\* even with "probable" or "out" present, otherwise "probable" yields 0.97 even
\* with "out" present, otherwise "out" yields 0.0, and an absent, empty or any
\* other status yields 1.0.
C14_ModifierOrder ==
    op = "_injury_minutes_modifier" =>
        LET q == Occurs(Chars_questionable, arg.status)
            p == Occurs(Chars_probable, arg.status)
            o == Occurs(Chars_out, arg.status)
        IN  /\ q => ret.value = Rat(23, 25)
            /\ (~q /\ p) => ret.value = Rat(97, 100)
            /\ (~q /\ ~p /\ o) => ret.value = Num(0)
            /\ (~q /\ ~p /\ ~o) => ret.value = Num(1)

\* a status that names all three categories, in mixed case, out first
C14_Witness ==
    /\ op = "_injury_minutes_modifier"
    /\ Len(arg.status) > 3
    /\ SubSeq(arg.status, 1, 3) = <<"O", "u", "t">>
    /\ Occurs(Chars_probable, arg.status)
    /\ Occurs(Chars_questionable, arg.status)
    /\ ret.value = Rat(23, 25)

\* the records of the whole file, in file order
Parsed == [i \in 1..Len(file) |-> ParseRow(file[i])]

\* the rows of the file that a load returned, by the name of the row
Returned == {ret.rows[i].opponent : i \in 1..Len(ret.rows)}

LoadOk == op = "load_game_logs" /\ ret.status = "ok"

\* the returned records are records of the file, each at most once
FromFile ==
    /\ \A i \in 1..Len(ret.rows) :
          /\ ret.rows[i].opponent \in 1..Len(file)
          /\ ret.rows[i] = Parsed[ret.rows[i].opponent]
    /\ Cardinality(Returned) = Len(ret.rows)

\* ascending by date, a missing date being the earliest
Ascending ==
    \A i, j \in 1..Len(ret.rows) :
        i < j => SortKey(ret.rows[i]) <= SortKey(ret.rows[j])

\* no record left out is later than a returned one
Latest_ones ==
    \A i \in 1..Len(file) : i \notin Returned =>
        \A j \in 1..Len(ret.rows) : SortKey(Parsed[i]) <= SortKey(ret.rows[j])

\* C15: for a game log of R rows and any trailing count N >= 0, load_game_logs
\* returns exactly min(N, R) records, namely the chronologically latest ones,
\* in ascending date order.
C15_TrailingCount ==
    LoadOk =>
        /\ Len(ret.rows) = IF arg.trailing_games < Len(file)
                           THEN arg.trailing_games ELSE Len(file)
        /\ FromFile
        /\ Latest_ones
        /\ Ascending

\* the same for a trailing count N >= 1
C15_PositiveCount ==
    (LoadOk /\ arg.trailing_games >= 1) => C15_TrailingCount

\* C16: the sequence returned by load_game_logs is non-decreasing by date,
\* records with a missing date come before every dated record, and records
\* with equal dates keep their relative order from the input source.
C16_StableAscending ==
    LoadOk =>
        /\ FromFile
        /\ \A i, j \in 1..Len(ret.rows) : i < j =>
              /\ ret.rows[j].game_date = NoDate => ret.rows[i].game_date = NoDate
              /\ ret.rows[i].game_date <= ret.rows[j].game_date
              /\ ret.rows[i].game_date = ret.rows[j].game_date =>
                    ret.rows[i].opponent < ret.rows[j].opponent

\* two games of one date followed in the file by a row without a date
C16_Witness ==
    /\ LoadOk
    /\ Len(ret.rows) = 3
    /\ file[1].game_date = file[2].game_date
    /\ file[1].game_date # <<>>
    /\ file[3].game_date = <<>>
    /\ ret.rows[1].opponent = 3
    /\ ret.rows[2].opponent = 1
    /\ ret.rows[3].opponent = 2

NumericKeys == {"projected_minutes", "pace_context", "vegas_total", "opponent_def_rating"}

\* the positions of the file's rows for the requested player
Matching == {i \in 1..Len(file) : file[i].player_id = arg.player_id}

\* C17: prepare_upcoming_context returns the last row of the context source
\* whose player_id equals the requested identifier (a later matching row
\* overrides every earlier one, and rows of other identifiers are never
\* returned), and fails with the no-data error exactly when no row matches.
C17_LastMatchingRow ==
    op = "prepare_upcoming_context" =>
        /\ ret.status = "ValueError" <=> Matching = {}
        /\ Matching # {} =>
              LET last == file[CHOOSE i \in Matching : \A j \in Matching : j <= i]
              IN  /\ ret.status = "ok"
                  /\ ret.row.player_id = arg.player_id
                  /\ ret.row.injury_status = last.injury_status
                  /\ \A key \in NumericKeys :
                        ret.row[key] = IF last[key] = <<>> THEN EmptyText
                                       ELSE last[key][1]

\* two different rows of the requested player with another player's between
C17_Witness ==
    /\ op = "prepare_upcoming_context"
    /\ ret.status = "ok"
    /\ Len(file) = 3
    /\ file[1].player_id = arg.player_id
    /\ file[2].player_id # arg.player_id
    /\ file[3].player_id = arg.player_id
    /\ file[1] # file[3]

\* the context with every empty numeric cell left out of the dict
Omitted(context) ==
    [key \in DOMAIN context |->
        IF key \in NumericKeys /\ context[key] = EmptyText THEN Absent ELSE context[key]]

\* C18: when the context row returned by prepare_upcoming_context has an
\* empty cell for projected_minutes, pace_context, vegas_total or
\* opponent_def_rating, project_player_game does not fail and uses that
\* field's fallback, exactly as if the field were omitted.
C18_EmptyCellsOptional ==
    (/\ op = "project_player_game"
     /\ Len(rows) >= 1
     /\ \E key \in NumericKeys : arg.context[key] = EmptyText) =>
        /\ ret.status = "ok"
        /\ ret = project_player_game(engineer_features(rows, "nan"),
                                     Omitted(arg.context))

\* C21: the feature engine never looks ahead: for every input sequence rows
\* and every index i, the FeatureRecord at index i of engineer_features(rows)
\* equals the FeatureRecord at index i of engineer_features(rows[0..i]).
C21_NoLookAhead ==
    FeaturesOk =>
        \A p \in 1..Len(rows) :
            /\ ~engineer_features_raises(SubSeq(rows, 1, p), arg.rt)
            /\ ret.features[p] = engineer_features(SubSeq(rows, 1, p), arg.rt)[p]

\* a full log whose off-nominal game comes after indices with full windows
C21_Witness ==
    /\ FeaturesOk
    /\ Len(rows) = MaxGames
    /\ \E p \in 10..Len(rows) : StatLine(rows[p]) \in {Hot, Zero}

Calls == {"engineer_features", "project_player_game", "backtest_recent_games"}

\* what a call returns, from its arguments alone
Outcome(o, a, rs) ==
    IF o = "engineer_features"
    THEN (IF engineer_features_raises(rs, a.rt)
          THEN [status |-> "AttributeError", features |-> <<>>]
          ELSE [status |-> "ok", features |-> engineer_features(rs, a.rt)])
    ELSE IF o = "project_player_game"
    THEN project_player_game(engineer_features(rs, a.rt), a.context)
    ELSE backtest_recent_games(rs, a.lookback, a.rt)

Square(x) == Mul(x, x)

\* the mean of the squares less the square of the mean
Variance(s) == Sub(Mean([i \in 1..Len(s) |-> Square(s[i])]), Square(Mean(s)))

\* r is the non-negative root of v, to within the 1/SqrtScale of the model
IsRootOf(r, v) ==
    /\ IsNum(r)
    /\ r.n >= 0
    /\ ~Lt(v, Square(r))
    /\ Square(r) = v \/ Lt(v, Square(Add(r, Rat(1, SqrtScale))))

\* all values of the window are one number (a single value is identical to
\* itself, missing or not)
Identical(s) == Len(s) = 1 \/ (~HasNaN(s) /\ \A i \in 1..Len(s) : s[i] = s[1])

\* the value at position p is what the claim says of a full window
StdOfWindow(value, window_values) ==
    IF Identical(window_values) THEN value = Num(0)
    ELSE IF HasNaN(window_values) THEN IsNaN(value)
    ELSE IsRootOf(value, Variance(window_values))

\* C23: for every index with a full window, _rolling_std returns exactly 0
\* when all w values of the window are identical and the population standard
\* deviation of the window otherwise; it returns None for every index i with
\* i + 1 < w.
C23_RollingStd ==
    op = "_rolling_std" =>
        LET values == Column(rows, arg.key)
            w == arg.window
        IN  /\ ret.status = "ok"
            /\ Len(ret.values) = Len(values)
            /\ \A p \in 1..Len(values) :
                  IF p < w THEN IsNone(ret.values[p])
                  ELSE StdOfWindow(ret.values[p], SubSeq(values, p + 1 - w, p))

\* the same on a runtime whose pstdev returns NaN for a window holding a NaN
C23_WhereReturned ==
    (op = "_rolling_std" /\ arg.rt = "nan") => C23_RollingStd

\* the sum of f(1), ..., f(n)
RECURSIVE SumTo(_, _)
SumTo(f, n) == IF n = 0 THEN Num(0) ELSE Add(SumTo(f, n - 1), f[n])

\* b solves the normal equation of the least-squares line through the points
\* (x, y[x + 1]), x = 0..n-1:  b * (n * Sxx - Sx * Sx) = n * Sxy - Sx * Sy
IsSlopeOf(b, y) ==
    LET n == Len(y)
        Sx == SumTo([x \in 1..n |-> Num(x - 1)], n)
        Sy == SumTo(y, n)
        Sxx == SumTo([x \in 1..n |-> Num((x - 1) * (x - 1))], n)
        Sxy == SumTo([x \in 1..n |-> Mul(Num(x - 1), y[x])], n)
    IN  Mul(b, Sub(Mul(Num(n), Sxx), Mul(Sx, Sx))) = Sub(Mul(Num(n), Sxy), Mul(Sx, Sy))

\* the values rise by d from each one to the next
Progression(y, d) ==
    /\ ~HasNaN(y)
    /\ \A x \in 2..Len(y) : Sub(y[x], y[x - 1]) = d

SlopeCall == op = "_rolling_slope"

\* the window that ends at position p
SlopeWindow(p) == SubSeq(Column(rows, arg.key), p + 1 - arg.window, p)

\* C26 as stated: for every index with a full window, _rolling_slope returns
\* the ordinary least-squares slope of the window's values against positions
\* 0..w-1: it is d when the window is an arithmetic progression with common
\* difference d, 0 when the window is constant, and for w = 1 the zero
\* denominator is replaced by 1 so the result is 0.
C26_SlopeOfEveryWindow ==
    SlopeCall =>
        \A p \in arg.window..Len(rows) :
            /\ IsSlopeOf(ret.values[p], SlopeWindow(p))
            /\ \A d \in {Num(-3), Num(0), Num(2)} :
                  (arg.window >= 2 /\ Progression(SlopeWindow(p), d)) => ret.values[p] = d
            /\ arg.window = 1 => ret.values[p] = Num(0)

\* C26 amended: the same for a window of numbers; a window that holds a
\* missing value has the missing value for its slope, for w = 1 as well.
C26_SlopeOfNumericWindow ==
    SlopeCall =>
        /\ Len(ret.values) = Len(rows)
        /\ \A p \in 1..Len(rows) :
              IF p < arg.window THEN IsNone(ret.values[p])
              ELSE IF HasNaN(SlopeWindow(p)) THEN IsNaN(ret.values[p])
              ELSE /\ IsNum(ret.values[p])
                   /\ IsSlopeOf(ret.values[p], SlopeWindow(p))
                   /\ \A d \in {Num(-3), Num(0), Num(2)} :
                         (arg.window >= 2 /\ Progression(SlopeWindow(p), d))
                             => ret.values[p] = d
                   /\ arg.window = 1 => ret.values[p] = Num(0)

\* a rising window of three or more games and, later in the log, a bent one
C26_Witness ==
    /\ SlopeCall
    /\ arg.key = "minutes"
    /\ arg.window >= 3
    /\ Len(rows) > arg.window
    /\ ret.values[arg.window] = Num(2)
    /\ IsNum(ret.values[Len(rows)])
    /\ ret.values[Len(rows)] \notin {Num(-3), Num(0), Num(2)}

\* C24: when the latest feature record has opp_def_avg_5 undefined and its own
\* opponent_def_rating missing, project_player_game uses 110 as the
\* opponent-defence anchor, so the efficiency adjustment is
\* 1 - (context opponent_def_rating - 110) / 250, and is 1 when the context
\* omits opponent_def_rating.
C24_DefaultAnchor ==
    (/\ ProjectOk
     /\ Len(rows) >= 1
     /\ IsNone(Latest.opp_def_avg_5)
     /\ IsNaN(Latest.opponent_def_rating)) =>
        LET base_eff == _safe(Or(Latest.ts_avg_5, Latest.true_shooting_pct),
                              CtxGet(arg.context, "true_shooting_pct", Rat(14, 25)))
            opp_scheme == CtxGet(arg.context, "opponent_def_rating", Num(110))
            efficiency_adjustment == Sub(Num(1), Div(Sub(opp_scheme, Num(110)), Num(250)))
        IN  /\ ret.expected_efficiency = Mul(base_eff, efficiency_adjustment)
            /\ arg.context.opponent_def_rating = Absent => ret.expected_efficiency = base_eff

\* the fields of a comparison record that hold points, minutes, notes and the
\* game's identity
PointsMinutesNotes == {"game_date", "opponent", "projected_points", "actual_points",
                       "projection_minutes", "actual_minutes", "notes"}

\* C25: each comparison record returned by backtest_recent_games carries, for
\* its game, the predicted and the actual points, the predicted and the actual
\* fantasy score, the projected and the actual minutes, and the generated
\* notes.
C25_ComparisonFields ==
    BacktestOk =>
        \A i \in 1..Len(ret.results) :
            LET rec == ret.results[i]
                actual == rows[Evaluated(i)]
            IN  /\ PointsMinutesNotes \subseteq DOMAIN rec
                /\ rec.actual_points = actual.points
                /\ rec.actual_minutes = actual.minutes
                /\ \E predicted, scored \in (DOMAIN rec) \ PointsMinutesNotes :
                      /\ predicted # scored
                      /\ rec[scored] = actual.sorare_score

\* C25 without the fantasy score: the fields the record does carry
C25_PointsAndMinutes ==
    BacktestOk =>
        \A i \in 1..Len(ret.results) :
            LET rec == ret.results[i]
                actual == rows[Evaluated(i)]
            IN  /\ DOMAIN rec = PointsMinutesNotes
                /\ rec.actual_points = actual.points
                /\ rec.actual_minutes = actual.minutes
                /\ rec.opponent = actual.opponent
                /\ rec.game_date = IsoFormat(actual.game_date)

\* x <= y on floats
Le(x, y) == IsNum(x) /\ IsNum(y) /\ Sub(y, x).n >= 0

\* every statistic of every game is a number that is not negative
NonNegativeHistory ==
    \A i \in 1..Len(rows) :
        \A key \in DOMAIN StatLine(rows[i]) : Le(Num(0), rows[i][key])

\* every numeric context value that is given is a number
FiniteContext(context) ==
    \A key \in {"projected_minutes", "pace_context", "vegas_total", "opponent_def_rating",
                "usage_rate", "true_shooting_pct"} :
        context[key] = Absent \/ IsNum(context[key])

Bracketed ==
    /\ Le(Num(0), ret.lower_ci)
    /\ Le(ret.lower_ci, ret.expected_points)
    /\ Le(ret.expected_points, ret.upper_ci)

\* C27: in every ProjectionResult, for any history of non-negative statistics
\* and any finite context values, the bounds bracket the point estimate:
\* 0 <= lower_ci <= expected_points <= upper_ci.
C27_BoundsBracket ==
    (ProjectOk /\ NonNegativeHistory /\ FiniteContext(arg.context)) => Bracketed

\* the same for the contexts whose opponent rating is within 250 of the log's
C27_ModerateContext ==
    (/\ ProjectOk
     /\ NonNegativeHistory
     /\ FiniteContext(arg.context)
     /\ arg.context # LockdownContext) => Bracketed

\* C28: whenever the context's injury status yields the 0.0 minutes modifier,
\* project_player_game returns expected_points equal to 0 as well as
\* expected_minutes equal to 0, for every feature sequence including one whose
\* minutes anchor is 0.
C28_OutScoresZero ==
    (ProjectOk /\ _injury_minutes_modifier(arg.context.injury_status) = Num(0)) =>
        /\ ret.expected_minutes = Num(0)
        /\ ret.expected_points = Num(0)

\* the same for a minutes anchor that is a number other than 0
C28_PositiveAnchor ==
    (/\ ProjectOk
     /\ _injury_minutes_modifier(arg.context.injury_status) = Num(0)
     /\ Truthy(_safe(Latest.minutes_avg_5, Latest.minutes))) => C28_OutScoresZero

\* s is the end of l
IsSuffix(s, l) ==
    /\ Len(s) <= Len(l)
    /\ s = SubSeq(l, Len(l) - Len(s) + 1, Len(l))

\* C29: backtest iterations are independent of the lookback count: for any
\* records with L > k + 1 and k >= 1, every comparison record of
\* backtest_recent_games(records, k) is identical to the record for the same
\* index in backtest_recent_games(records, k + 1), so the result for k is a
\* suffix of the result for k + 1.
C29_SuffixOfLonger ==
    (BacktestOk /\ arg.lookback >= 1 /\ Len(rows) > arg.lookback + 1) =>
        LET longer == backtest_recent_games(rows, arg.lookback + 1, arg.rt)
        IN  /\ longer.status = "ok"
            /\ IsSuffix(ret.results, longer.results)
            /\ Len(longer.results) <= Len(ret.results) + 1

\* two or more records, the lookback one more adding a record before them
C29_Witness ==
    /\ BacktestOk
    /\ arg.lookback >= 2
    /\ Len(ret.results) = arg.lookback
    /\ Len(rows) > arg.lookback + 5
    /\ ret.results[1] # ret.results[2]
    /\ \E i \in 1..Len(rows) : StatLine(rows[i]) = Hot

\* C30: in every comparison record of backtest_recent_games, the
\* projected-minutes proxy is the mean of the minutes of the 5 records
\* immediately before t and the "Healthy" status applies no reduction, so
\* projection_minutes equals max(0, minutes_avg_5 + minutes_trend) of the last
\* feature record of history (undefined when that sum is), and the record's
\* notes always contain "Injury status: Healthy".
C30_HealthyProxy ==
    BacktestOk =>
        \A i \in 1..Len(ret.results) :
            LET t == Evaluated(i)
                history == SubSeq(rows, 1, t - 1)
                last == engineer_features(history, arg.rt)[t - 1]
                proxy == Mean([j \in 1..5 |-> rows[t - 6 + j].minutes])
                total == Add(last.minutes_avg_5, last.minutes_trend)
            IN  /\ BacktestContext(history, rows[t]).projected_minutes = proxy
                /\ proxy = last.minutes_avg_5
                /\ IF IsNaN(total) THEN IsNaN(ret.results[i].projection_minutes)
                   ELSE ret.results[i].projection_minutes =
                            (IF Lt(total, Num(0)) THEN Num(0) ELSE total)
                /\ Contains(ret.results[i].notes,
                            <<"Injury status: ", "H", "e", "a", "l", "t", "h", "y">>)

\* a record made from a history whose minutes trend is not 0
C30_Witness ==
    /\ BacktestOk
    /\ Len(ret.results) >= 2
    /\ Len(rows) > 7
    /\ \E i \in 1..Len(ret.results) :
          LET last == engineer_features(SubSeq(rows, 1, Evaluated(i) - 1),
                                        arg.rt)[Evaluated(i) - 1]
          IN  /\ IsNum(last.minutes_trend)
              /\ last.minutes_trend # Num(0)
              /\ ret.results[i].projection_minutes # last.minutes_avg_5

====
